---- MODULE Spec2Model ----
(***************************************************************************)
(* Model of script.js: the sign-up form validation (validators, live       *)
(* validation listeners, submit handler).  A string is a sequence of       *)
(* one-character strings; a regular expression is a syntax tree matched    *)
(* by MatchEnds.                                                            *)
(***************************************************************************)
EXTENDS Integers, Sequences, FiniteSets, TLC

(* ------------------------------------------------------------------ *)
(* Characters                                                          *)
(* ------------------------------------------------------------------ *)
Lower == {"a","b","c","d","e","f","g","h","i","j","k","l","m",
          "n","o","p","q","r","s","t","u","v","w","x","y","z"}
Upper == {"A","B","C","D","E","F","G","H","I","J","K","L","M",
          "N","O","P","Q","R","S","T","U","V","W","X","Y","Z"}
Digits == {"0","1","2","3","4","5","6","7","8","9"}
\* ECMAScript WhiteSpace and LineTerminator code points (ASCII part)
LineTerminators == {"\n", "\r"}
WhiteSpace == {" ", "\t", "\f"} \cup LineTerminators

\* value of a decimal digit
DigitVal(c) ==
  CASE c = "0" -> 0 [] c = "1" -> 1 [] c = "2" -> 2 [] c = "3" -> 3
    [] c = "4" -> 4 [] c = "5" -> 5 [] c = "6" -> 6 [] c = "7" -> 7
    [] c = "8" -> 8 [] c = "9" -> 9

(* ------------------------------------------------------------------ *)
(* String.prototype.trim                                               *)
(* ------------------------------------------------------------------ *)
RECURSIVE TrimStart(_)
TrimStart(s) ==
  IF s = <<>> \/ Head(s) \notin WhiteSpace THEN s ELSE TrimStart(Tail(s))

RECURSIVE TrimEnd(_)
TrimEnd(s) ==
  IF s = <<>> \/ s[Len(s)] \notin WhiteSpace THEN s
  ELSE TrimEnd(SubSeq(s, 1, Len(s) - 1))

trim(s) == TrimEnd(TrimStart(s))

(* ------------------------------------------------------------------ *)
(* Number(string): StringToNumber on the decimal-integer literals.     *)
(* The result is a record: nan, or the integer val.  Strings drawn     *)
(* from digits, signs, white space and letters that start no other     *)
(* numeric literal (no ".", "e", "x", "Infinity") are covered.         *)
(* ------------------------------------------------------------------ *)
NaN == [nan |-> TRUE, val |-> 0]
Num(n) == [nan |-> FALSE, val |-> n]

RECURSIVE DigitsValue(_, _)
DigitsValue(s, acc) ==
  IF s = <<>> THEN acc ELSE DigitsValue(Tail(s), 10 * acc + DigitVal(Head(s)))

AllDigits(s) == s # <<>> /\ \A i \in 1..Len(s) : s[i] \in Digits

Number(str) ==
  LET s == trim(str) IN
  IF s = <<>> THEN Num(0)
  ELSE IF Head(s) = "-" THEN
         (IF AllDigits(Tail(s)) THEN Num(0 - DigitsValue(Tail(s), 0)) ELSE NaN)
  ELSE IF Head(s) = "+" THEN
         (IF AllDigits(Tail(s)) THEN Num(DigitsValue(Tail(s), 0)) ELSE NaN)
  ELSE IF AllDigits(s) THEN Num(DigitsValue(s, 0)) ELSE NaN

\* !v : NaN and 0 are falsy
Falsy(v) == v.nan \/ v.val = 0
\* v < n and v > n : every comparison with NaN is false
NumLt(v, n) == ~v.nan /\ v.val < n
NumGt(v, n) == ~v.nan /\ v.val > n

(* ------------------------------------------------------------------ *)
(* Regular expressions                                                 *)
(* ------------------------------------------------------------------ *)
Inf == -1

\* a character class: items are characters or the escapes / ranges below
Cls(neg, items) == [t |-> "cls", neg |-> neg, items |-> items]
Lit(c) == Cls(FALSE, {c})
Bol == [t |-> "bol"]
Eol == [t |-> "eol"]
Cat(rs) == [t |-> "cat", rs |-> rs]
Rep(r, lo, hi) == [t |-> "rep", r |-> r, lo |-> lo, hi |-> hi]
Look(r) == [t |-> "look", r |-> r]
Opt(r) == Rep(r, 0, 1)
Star(r) == Rep(r, 0, Inf)
Plus(r) == Rep(r, 1, Inf)

ItemMatches(item, c) ==
  CASE item = "\\s" -> c \in WhiteSpace
    [] item = "\\S" -> c \notin WhiteSpace
    [] item = "\\d" -> c \in Digits
    [] item = "\\w" -> c \in Lower \cup Upper \cup Digits \cup {"_"}
    [] item = "A-Z" -> c \in Upper
    [] item = "a-z" -> c \in Lower
    [] item = "dot" -> c \notin LineTerminators
    [] OTHER -> c = item

InClass(c, cls) ==
  LET hit == \E item \in cls.items : ItemMatches(item, c)
  IN IF cls.neg THEN ~hit ELSE hit

\* MatchEnds(n, s, i): the positions at which a match of n that starts at
\* position i of s can end (one past its last character)
RECURSIVE MatchEnds(_, _, _), CatEnds(_, _, _, _), RepEnds(_, _, _, _)
MatchEnds(n, s, i) ==
  CASE n.t = "cls" -> IF i <= Len(s) /\ InClass(s[i], n) THEN {i + 1} ELSE {}
    [] n.t = "bol" -> IF i = 1 THEN {i} ELSE {}
    [] n.t = "eol" -> IF i = Len(s) + 1 THEN {i} ELSE {}
    [] n.t = "look" -> IF MatchEnds(n.r, s, i) # {} THEN {i} ELSE {}
    [] n.t = "cat" -> CatEnds(n.rs, 1, s, {i})
    [] n.t = "rep" -> RepEnds(n, s, {i}, 0)

CatEnds(rs, k, s, starts) ==
  IF k > Len(rs) \/ starts = {} THEN starts
  ELSE CatEnds(rs, k + 1, s, UNION {MatchEnds(rs[k], s, j) : j \in starts})

\* cur: the positions reached after exactly cnt repetitions
RepEnds(n, s, cur, cnt) ==
  IF cur = {} THEN {}
  ELSE LET here == IF cnt >= n.lo THEN cur ELSE {}
           more == UNION {{e \in MatchEnds(n.r, s, j) : e > j} : j \in cur}
       IN IF n.hi # Inf /\ cnt >= n.hi THEN here
          ELSE here \cup RepEnds(n, s, more, cnt + 1)

\* RegExp.prototype.test without the g flag: a match starting anywhere
test(re, s) == \E i \in 1..(Len(s) + 1) : MatchEnds(re, s, i) # {}

NotSpaceAt == Cls(TRUE, {"\\s", "@"})
WordDash == Cls(FALSE, {"\\w", "-"})
Dot == Cls(FALSE, {"dot"})

\* /^[^\s@]+@[^\s@]+\.[^\s@]{2,}$/
emailRegex ==
  Cat(<<Bol, Plus(NotSpaceAt), Lit("@"), Plus(NotSpaceAt), Lit("."),
        Rep(NotSpaceAt, 2, Inf), Eol>>)

\* /^(https?:\/\/)?([\w-]+\.)+[\w-]{2,}(\/\S*)?$/
urlRegex ==
  Cat(<<Bol,
        Opt(Cat(<<Lit("h"), Lit("t"), Lit("t"), Lit("p"), Opt(Lit("s")),
                  Lit(":"), Lit("/"), Lit("/")>>)),
        Plus(Cat(<<Plus(WordDash), Lit(".")>>)),
        Rep(WordDash, 2, Inf),
        Opt(Cat(<<Lit("/"), Star(Cls(FALSE, {"\\S"}))>>)),
        Eol>>)

\* passwordRegex without its digit lookahead
passwordRegexNoDigit ==
  Cat(<<Bol,
        Look(Cat(<<Star(Dot), Cls(FALSE, {"A-Z", "a-z"})>>)),
        Rep(Dot, 8, Inf), Eol>>)

\* /^(?=.*[A-Za-z])(?=.*\d).{8,}$/
passwordRegex ==
  Cat(<<Bol,
        Look(Cat(<<Star(Dot), Cls(FALSE, {"A-Z", "a-z"})>>)),
        Look(Cat(<<Star(Dot), Cls(FALSE, {"\\d"})>>)),
        Rep(Dot, 8, Inf), Eol>>)

(* ------------------------------------------------------------------ *)
(* The form: fields, messages, display                                 *)
(* ------------------------------------------------------------------ *)
TextFields == {"name", "email", "password", "confirm-password", "age", "website"}
Fields == TextFields \cup {"terms"}

\* the fields in document order
DocOrder == <<"name", "email", "password", "confirm-password", "age", "website", "terms">>

NameMsg == "Please enter your full name (at least 2 characters)."
EmailMsg == "Please enter a valid email address."
PasswordMsg == "Password must be 8+ characters and include letters and numbers."
ConfirmMsg == "Passwords do not match."
AgeMsg == "Enter a valid age (13 - 120)."
WebsiteMsg == "Please enter a valid URL (or leave blank)."
TermsMsg == "You must accept the terms."
SuccessMsg == "Form is valid! - Thanks for signing up."

MinNameLen == 2
MinAge == 13
MaxAge == 120

VARIABLES
  value,      \* value[f]: the value of text field f
  checked,    \* termsCheckbox.checked
  errText,    \* errText[f]: textContent of the element f + "-error"
  invalid,    \* invalid[f]: f carries the class "invalid"
  success,    \* successBox.textContent
  focus,      \* document.activeElement: a field, or "body"
  ret,        \* ret[f]: what f's validator returned when it last ran
  valid,      \* the submit handler's valid, as of the last submit
  yearText    \* textContent of the footer's year element

formVars == <<value, checked, errText, invalid, success, focus, ret, valid, yearText>>

VARIABLES
  bodyDark,           \* body carries the class "dark"
  themeStored,        \* localStorage "theme": "dark", "light", or "null" (absent)
  themeBtnText,       \* themeBtn.textContent
  ariaPressed,        \* themeBtn aria-pressed
  count,              \* the counter
  display,            \* counter-display textContent: <<n>>, or <<>> as loaded
  ariaExpanded,       \* ariaExpanded[q]: aria-expanded of FAQ question q
  questionOpen,       \* questionOpen[q]: question q carries the class "open"
  answerOpen,         \* answerOpen[q]: the answer after q carries the class "open"
  activeTabBtns,      \* the tab buttons carrying the class "active"
  activeTabContents,  \* the ids of the tab panels carrying the class "active"
  dropListHidden,     \* dropList.hidden
  incs,               \* history: increment events since the last reset event
  decs                \* history: decrement events since the last reset event

pageVars == <<bodyDark, themeStored, themeBtnText, ariaPressed, count, display,
              ariaExpanded, questionOpen, answerOpen, activeTabBtns,
              activeTabContents, dropListHidden>>
historyVars == <<incs, decs>>

vars == <<formVars, pageVars, historyVars>>

(* ------------------------------------------------------------------ *)
(* The page outside the form: theme, counter, FAQ, tabs, dropdown.     *)
(* A listener is an operator from the page before it runs to the page  *)
(* after it.                                                           *)
(* ------------------------------------------------------------------ *)
NumFaq == 2
NumTabs == 3
MaxCounterEvents == 3

FaqQuestions == 1..NumFaq
\* tab button b names the panel b; button 0 names an id no element has
TabBtns == 0..NumTabs
TabContents == 1..NumTabs
DataTab(b) == b
getElementById(id) == IF id \in TabContents THEN id ELSE 0

LightModeText == "Light Mode"
DarkModeText == "Dark Mode"

\* String(boolean)
String(b) == IF b THEN "true" ELSE "false"

Page ==
  [bodyDark |-> bodyDark, themeStored |-> themeStored,
   themeBtnText |-> themeBtnText, ariaPressed |-> ariaPressed,
   count |-> count, display |-> display,
   ariaExpanded |-> ariaExpanded, questionOpen |-> questionOpen,
   answerOpen |-> answerOpen, activeTabBtns |-> activeTabBtns,
   activeTabContents |-> activeTabContents, dropListHidden |-> dropListHidden]

\* the page is p
PageIs(p) ==
  /\ bodyDark = p.bodyDark /\ themeStored = p.themeStored
  /\ themeBtnText = p.themeBtnText /\ ariaPressed = p.ariaPressed
  /\ count = p.count /\ display = p.display
  /\ ariaExpanded = p.ariaExpanded /\ questionOpen = p.questionOpen
  /\ answerOpen = p.answerOpen /\ activeTabBtns = p.activeTabBtns
  /\ activeTabContents = p.activeTabContents
  /\ dropListHidden = p.dropListHidden

\* the page becomes p
PageBecomes(p) ==
  /\ bodyDark' = p.bodyDark /\ themeStored' = p.themeStored
  /\ themeBtnText' = p.themeBtnText /\ ariaPressed' = p.ariaPressed
  /\ count' = p.count /\ display' = p.display
  /\ ariaExpanded' = p.ariaExpanded /\ questionOpen' = p.questionOpen
  /\ answerOpen' = p.answerOpen /\ activeTabBtns' = p.activeTabBtns
  /\ activeTabContents' = p.activeTabContents
  /\ dropListHidden' = p.dropListHidden

\* the document as parsed, then the startup code of the theme: question 1
\* has aria-expanded="false", the others have no such attribute; the first
\* tab is the active one; the list of the dropdown is hidden
Loaded(savedTheme) ==
  [bodyDark |-> (savedTheme = "dark"),
   themeStored |-> savedTheme,
   themeBtnText |-> IF savedTheme = "dark" THEN LightModeText ELSE DarkModeText,
   ariaPressed |-> IF savedTheme = "dark" THEN "true" ELSE "false",
   count |-> 0,
   display |-> <<>>,
   ariaExpanded |-> [q \in FaqQuestions |-> IF q = 1 THEN "false" ELSE "null"],
   questionOpen |-> [q \in FaqQuestions |-> FALSE],
   answerOpen |-> [q \in FaqQuestions |-> FALSE],
   activeTabBtns |-> {1},
   activeTabContents |-> {1},
   dropListHidden |-> TRUE]

\* ----- click listeners -----
\* the theme button's listener storing the mode the page has left
themeBtnClickStale(p) ==
  LET isDark == ~p.bodyDark
  IN [p EXCEPT !.bodyDark = isDark,
               !.themeBtnText = IF isDark THEN LightModeText ELSE DarkModeText,
               !.ariaPressed = String(isDark),
               !.themeStored = IF p.bodyDark THEN "dark" ELSE "light"]

themeBtnClick(p) ==
  LET isDark == ~p.bodyDark
  IN [p EXCEPT !.bodyDark = isDark,
               !.themeBtnText = IF isDark THEN LightModeText ELSE DarkModeText,
               !.ariaPressed = String(isDark),
               !.themeStored = IF isDark THEN "dark" ELSE "light"]

updateCounter(p) == [p EXCEPT !.display = <<p.count>>]

incClick(p) == updateCounter([p EXCEPT !.count = @ + 1])
decClick(p) == updateCounter([p EXCEPT !.count = @ - 1])
resClick(p) == updateCounter([p EXCEPT !.count = 0])

\* the question's listener toggling the answer of the first question
faqClickFirstAnswer(q, p) ==
  LET expanded == p.ariaExpanded[q] = "true"
  IN [p EXCEPT !.ariaExpanded[q] = String(~expanded),
               !.questionOpen[q] = ~@,
               !.answerOpen[1] = ~@]

faqClick(q, p) ==
  LET expanded == p.ariaExpanded[q] = "true"
  IN [p EXCEPT !.ariaExpanded[q] = String(~expanded),
               !.questionOpen[q] = ~@,
               !.answerOpen[q] = ~@]

\* the tab button's listener without the removal of "active" from the panels
tabClickKeepsPanels(b, p) ==
  LET target == getElementById(DataTab(b))
  IN [p EXCEPT !.activeTabBtns = {b},
               !.activeTabContents =
                  IF target = 0 THEN @ ELSE @ \cup {target}]

\* with no element of that id, classList is read of null: the listener
\* throws there, after the panels have lost "active"
tabClick(b, p) ==
  LET target == getElementById(DataTab(b))
  IN [p EXCEPT !.activeTabBtns = {b},
               !.activeTabContents = IF target = 0 THEN {} ELSE {target}]

dropBtnClick(p) == [p EXCEPT !.dropListHidden = ~@]

\* the alert shows and is dismissed; then the list is hidden
dropItemClick(p) == [p EXCEPT !.dropListHidden = TRUE]

\* elements are records: el names the element or its class, i tells the
\* FAQ question, tab button or form field apart
El(el, i) == [el |-> el, i |-> i]

\* dropdown.contains(target): the container, its button, its list, an item
DropdownContains(t) == t.el \in {"my-dropdown", "drop-btn", "drop-list", "drop-item"}

\* a document that has no click listener
documentClickNever(t, p) == p

documentClick(t, p) ==
  IF ~DropdownContains(t) THEN [p EXCEPT !.dropListHidden = TRUE] ELSE p

\* the listeners of the target itself
targetClick(t, p) ==
  CASE t.el = "theme-toggle" -> themeBtnClick(p)
    [] t.el = "increment" -> incClick(p)
    [] t.el = "decrement" -> decClick(p)
    [] t.el = "reset" -> resClick(p)
    [] t.el = "faq-question" -> faqClick(t.i, p)
    [] t.el = "tab-btn" -> tabClick(t.i, p)
    [] t.el = "drop-btn" -> dropBtnClick(p)
    [] t.el = "drop-item" -> dropItemClick(p)
    [] OTHER -> p

\* a click event on t: t's listeners, then, unless one of them stopped the
\* propagation, the document's
DispatchClick(t, p) ==
  LET p1 == targetClick(t, p)
  IN IF t.el = "drop-btn" THEN p1 ELSE documentClick(t, p1)

\* ----- keydown listeners -----
LowerSeq == <<"a","b","c","d","e","f","g","h","i","j","k","l","m",
              "n","o","p","q","r","s","t","u","v","w","x","y","z">>
UpperSeq == <<"A","B","C","D","E","F","G","H","I","J","K","L","M",
              "N","O","P","Q","R","S","T","U","V","W","X","Y","Z">>

\* String.prototype.toLowerCase on a key that is one character
toLowerCase(key) ==
  IF \E i \in 1..Len(UpperSeq) : UpperSeq[i] = key
  THEN LowerSeq[CHOOSE i \in 1..Len(UpperSeq) : UpperSeq[i] = key]
  ELSE key

themeKeydown(key, p) ==
  IF key = "t" \/ key = "T" THEN DispatchClick(El("theme-toggle", 0), p) ELSE p

\* the counter's keydown listener without "=" as an increment key
counterKeydownPlusOnly(key, p) ==
  LET p1 == IF key = "+" THEN updateCounter([p EXCEPT !.count = @ + 1]) ELSE p
      p2 == IF key = "-" THEN updateCounter([p1 EXCEPT !.count = @ - 1]) ELSE p1
  IN IF toLowerCase(key) = "r" THEN updateCounter([p2 EXCEPT !.count = 0]) ELSE p2

counterKeydown(key, p) ==
  LET p1 == IF key = "+" \/ key = "=" THEN updateCounter([p EXCEPT !.count = @ + 1]) ELSE p
      p2 == IF key = "-" THEN updateCounter([p1 EXCEPT !.count = @ - 1]) ELSE p1
  IN IF toLowerCase(key) = "r" THEN updateCounter([p2 EXCEPT !.count = 0]) ELSE p2

faqKeydown(q, key, p) ==
  IF key = "Enter" \/ key = " " THEN DispatchClick(El("faq-question", q), p) ELSE p

\* a keydown event on t: t's listener, then the document's two, in the
\* order they were added
DispatchKeydown(t, key, p) ==
  LET p1 == IF t.el = "faq-question" THEN faqKeydown(t.i, key, p) ELSE p
      p2 == themeKeydown(key, p1)
  IN counterKeydown(key, p2)


\* the display a validator writes to: error texts and invalid markers
Display(text, inv) == [text |-> text, invalid |-> inv]

\* showError with classList.toggle for classList.add
showErrorToggle(d, el, message) ==
  [d EXCEPT !.text[el] = message, !.invalid[el] = ~d.invalid[el]]

showError(d, el, message) ==
  [d EXCEPT !.text[el] = message, !.invalid[el] = TRUE]

clearError(d, el) ==
  [d EXCEPT !.text[el] = "", !.invalid[el] = FALSE]

\* a validator's outcome: its return value and the display it leaves
Outcome(r, d) == [ret |-> r, d |-> d]

validateName(val, d) ==
  LET v == trim(val["name"]) IN
  IF Len(v) < MinNameLen THEN Outcome(FALSE, showError(d, "name", NameMsg))
  ELSE Outcome(TRUE, clearError(d, "name"))

validateEmail(val, d) ==
  LET v == trim(val["email"]) IN
  IF ~test(emailRegex, v) THEN Outcome(FALSE, showError(d, "email", EmailMsg))
  ELSE Outcome(TRUE, clearError(d, "email"))

validatePassword(val, d) ==
  LET v == val["password"] IN
  IF ~test(passwordRegex, v) THEN Outcome(FALSE, showError(d, "password", PasswordMsg))
  ELSE Outcome(TRUE, clearError(d, "password"))

\* validateConfirm comparing the field with itself
validateConfirmSelf(val, d) ==
  IF val["confirm-password"] # val["confirm-password"]
  THEN Outcome(FALSE, showError(d, "confirm-password", ConfirmMsg))
  ELSE Outcome(TRUE, clearError(d, "confirm-password"))

\* validateConfirm comparing the trimmed values
validateConfirmTrimmed(val, d) ==
  IF trim(val["confirm-password"]) # trim(val["password"])
  THEN Outcome(FALSE, showError(d, "confirm-password", ConfirmMsg))
  ELSE Outcome(TRUE, clearError(d, "confirm-password"))

validateConfirm(val, d) ==
  IF val["confirm-password"] # val["password"]
  THEN Outcome(FALSE, showError(d, "confirm-password", ConfirmMsg))
  ELSE Outcome(TRUE, clearError(d, "confirm-password"))

\* validateAge with v <= 13 for v < 13
validateAgeExclusive(val, d) ==
  LET v == Number(val["age"]) IN
  IF Falsy(v) \/ NumLt(v, MinAge + 1) \/ NumGt(v, MaxAge)
  THEN Outcome(FALSE, showError(d, "age", AgeMsg))
  ELSE Outcome(TRUE, clearError(d, "age"))

validateAge(val, d) ==
  LET v == Number(val["age"]) IN
  IF Falsy(v) \/ NumLt(v, MinAge) \/ NumGt(v, MaxAge)
  THEN Outcome(FALSE, showError(d, "age", AgeMsg))
  ELSE Outcome(TRUE, clearError(d, "age"))

validateWebsite(val, d) ==
  LET v == trim(val["website"]) IN
  IF v = <<>> THEN Outcome(TRUE, clearError(d, "website"))
  ELSE IF ~test(urlRegex, v) THEN Outcome(FALSE, showError(d, "website", WebsiteMsg))
  ELSE Outcome(TRUE, clearError(d, "website"))

\* writes terms-error directly: the checkbox's class list is not touched
validateTerms(chk, d) ==
  IF ~chk THEN Outcome(FALSE, [d EXCEPT !.text["terms"] = TermsMsg])
  ELSE Outcome(TRUE, [d EXCEPT !.text["terms"] = ""])

\* the validator of text field f
Validate(f, val, d) ==
  CASE f = "name" -> validateName(val, d)
    [] f = "email" -> validateEmail(val, d)
    [] f = "password" -> validatePassword(val, d)
    [] f = "confirm-password" -> validateConfirm(val, d)
    [] f = "age" -> validateAge(val, d)
    [] f = "website" -> validateWebsite(val, d)

\* the validators chained with &&: none runs after the first that fails
validateAllShortCircuit(val, chk, d) ==
  LET r1 == validateName(val, d)
      r2 == IF r1.ret THEN validateEmail(val, r1.d) ELSE Outcome(FALSE, r1.d)
      r3 == IF r2.ret THEN validatePassword(val, r2.d) ELSE Outcome(FALSE, r2.d)
      r4 == IF r3.ret THEN validateConfirm(val, r3.d) ELSE Outcome(FALSE, r3.d)
      r5 == IF r4.ret THEN validateAge(val, r4.d) ELSE Outcome(FALSE, r4.d)
      r6 == IF r5.ret THEN validateWebsite(val, r5.d) ELSE Outcome(FALSE, r5.d)
      r7 == IF r6.ret THEN validateTerms(chk, r6.d) ELSE Outcome(FALSE, r6.d)
  IN [rets |-> <<r1.ret, r2.ret, r3.ret, r4.ret, r5.ret, r6.ret, r7.ret>>,
      d |-> r7.d]

\* the array literal of the submit handler: all seven validators, in order,
\* each on the display the previous one left
validateAll(val, chk, d) ==
  LET r1 == validateName(val, d)
      r2 == validateEmail(val, r1.d)
      r3 == validatePassword(val, r2.d)
      r4 == validateConfirm(val, r3.d)
      r5 == validateAge(val, r4.d)
      r6 == validateWebsite(val, r5.d)
      r7 == validateTerms(chk, r6.d)
  IN [rets |-> <<r1.ret, r2.ret, r3.ret, r4.ret, r5.ret, r6.ret, r7.ret>>,
      d |-> r7.d]

\* the position of f's validator in that array
ArrayIndex(f) ==
  CASE f = "name" -> 1 [] f = "email" -> 2 [] f = "password" -> 3
    [] f = "confirm-password" -> 4 [] f = "age" -> 5 [] f = "website" -> 6
    [] f = "terms" -> 7

\* Array.prototype.every(v => v === true)
every(rets) == \A i \in 1..Len(rets) : rets[i] = TRUE

\* document.querySelector('.invalid'): the first marked field, or "null"
querySelector(inv) ==
  IF \A i \in 1..Len(DocOrder) : ~inv[DocOrder[i]] THEN "null"
  ELSE DocOrder[CHOOSE i \in 1..Len(DocOrder) :
                  /\ inv[DocOrder[i]]
                  /\ \A j \in 1..(i - 1) : ~inv[DocOrder[j]]]

\* form.reset(): every control back to its default value
ResetValue == [f \in TextFields |-> <<>>]
ResetChecked == FALSE

(* ------------------------------------------------------------------ *)
(* Inputs                                                              *)
(* ------------------------------------------------------------------ *)
\* values a user puts into a field in one edit (typed, pasted or filled in)
Samples(f) ==
  CASE f = "name" -> { <<" ","A"," ">>, <<"A","l">> }
    [] f = "email" -> { <<>>, <<"a","@","b",".","c","o">> }
    [] f = "password" -> { <<>>, <<"a","b","c","d","e","f","g","1">> }
    [] f = "confirm-password" -> { <<>>, <<"a","b","c","d","e","f","g","1">> }
    [] f = "age" -> { <<>>, <<"1","3">> }
    [] f = "website" -> { <<>>, <<"x">> }

\* what new Date().getFullYear() can return
Years == {2025}

(* ------------------------------------------------------------------ *)
(* State machine                                                       *)
(* ------------------------------------------------------------------ *)
Init ==
  /\ value = [f \in TextFields |-> <<>>]
  /\ checked = FALSE
  /\ errText = [f \in Fields |-> ""]
  /\ invalid = [f \in Fields |-> FALSE]
  /\ success = ""
  /\ focus = "body"
  /\ ret = [f \in {} |-> TRUE]
  /\ valid = FALSE
  /\ yearText = 0
  /\ PageIs(Loaded("null"))
  /\ incs = 0
  /\ decs = 0

\* ret with f's validator having returned r
Returned(f, r) ==
  [g \in (DOMAIN ret) \cup {f} |-> IF g = f THEN r ELSE ret[g]]

\* an input event on text field f that leaves it holding x: the field's
\* listener runs the field's validator, and no other
InputEvent(f, x) ==
  LET val == [value EXCEPT ![f] = x]
      o == Validate(f, val, Display(errText, invalid))
  IN /\ value' = val
     /\ focus' = f
     /\ errText' = o.d.text
     /\ invalid' = o.d.invalid
     /\ ret' = Returned(f, o.ret)
     /\ UNCHANGED <<checked, success, valid, yearText>>

\* an input event alone: no key of the page's keyboard shortcuts is involved
InputField(f, x) == InputEvent(f, x) /\ UNCHANGED <<pageVars, historyVars>>

InputName == \E x \in Samples("name") : InputField("name", x)
InputEmail == \E x \in Samples("email") : InputField("email", x)
InputPassword == \E x \in Samples("password") : InputField("password", x)
InputConfirm == \E x \in Samples("confirm-password") : InputField("confirm-password", x)
InputAge == \E x \in Samples("age") : InputField("age", x)
InputWebsite == \E x \in Samples("website") : InputField("website", x)

\* a change event on the checkbox: the user has toggled it
ChangeTerms ==
  LET o == validateTerms(~checked, Display(errText, invalid))
  IN /\ checked' = ~checked
     /\ focus' = "terms"
     /\ errText' = o.d.text
     /\ invalid' = o.d.invalid
     /\ ret' = Returned("terms", o.ret)
     /\ UNCHANGED <<value, success, valid, yearText, pageVars, historyVars>>

\* the submit handler without its first statement, successBox.textContent = ''
SubmitKeepsSuccess ==
  LET all == validateAll(value, checked, Display(errText, invalid))
      ok == every(all.rets)
      firstInvalid == querySelector(all.d.invalid)
  IN /\ valid' = ok
     /\ ret' = [f \in Fields |-> all.rets[ArrayIndex(f)]]
     /\ errText' = all.d.text
     /\ IF ok
        THEN /\ success' = SuccessMsg
             /\ value' = ResetValue
             /\ checked' = ResetChecked
             /\ invalid' = [f \in Fields |-> FALSE]
             /\ focus' = focus
        ELSE /\ success' = success
             /\ invalid' = all.d.invalid
             /\ focus' = IF firstInvalid # "null" THEN firstInvalid ELSE focus
             /\ UNCHANGED <<value, checked>>
     /\ \E y \in Years : yearText' = y
     /\ UNCHANGED <<pageVars, historyVars>>

\* the submit handler
Submit ==
  LET all == validateAll(value, checked, Display(errText, invalid))
      ok == every(all.rets)
      firstInvalid == querySelector(all.d.invalid)
  IN /\ valid' = ok
     /\ ret' = [f \in Fields |-> all.rets[ArrayIndex(f)]]
     /\ errText' = all.d.text
     /\ IF ok
        THEN /\ success' = SuccessMsg
             /\ value' = ResetValue
             /\ checked' = ResetChecked
             /\ invalid' = [f \in Fields |-> FALSE]
             /\ focus' = focus
        ELSE /\ success' = ""
             /\ invalid' = all.d.invalid
             /\ focus' = IF firstInvalid # "null" THEN firstInvalid ELSE focus
             /\ UNCHANGED <<value, checked>>
     /\ \E y \in Years : yearText' = y
     /\ UNCHANGED <<pageVars, historyVars>>

Next ==
  \/ InputName
  \/ InputEmail
  \/ InputPassword
  \/ InputConfirm
  \/ InputAge
  \/ InputWebsite
  \/ ChangeTerms
  \/ Submit

Spec == Init /\ [][Next]_vars

(* ------------------------------------------------------------------ *)
(* Editing: one input event per character entered or deleted          *)
(* ------------------------------------------------------------------ *)
MaxConfirmLen == 3
MaxEmailLen == 7
MaxAgeLen == 4
MaxPasswordLen == 8

ConfirmAlphabet == {"a", "A", " "}
EmailAlphabet == {"a", "@", ".", " "}
AgeAlphabet == {"0", "1", "2", "3", " ", "a", "-", "+"}
PasswordAlphabet == {"a", "1", " "}

\* the user appends one character of alphabet to field f
TypeChar(f, alphabet, maxLen) ==
  /\ Len(value[f]) < maxLen
  /\ \E c \in alphabet : InputField(f, Append(value[f], c))

\* the user deletes the last character of field f
EraseChar(f) ==
  /\ value[f] # <<>>
  /\ InputField(f, SubSeq(value[f], 1, Len(value[f]) - 1))

TypePassword == TypeChar("password", PasswordAlphabet, MaxPasswordLen)
ErasePassword == EraseChar("password")
SpecPassword == Init /\ [][TypePassword \/ ErasePassword]_vars

TypeEmail == TypeChar("email", EmailAlphabet, MaxEmailLen)
EraseEmail == EraseChar("email")
SpecEmail == Init /\ [][TypeEmail \/ EraseEmail]_vars

TypeAge == TypeChar("age", AgeAlphabet, MaxAgeLen)
EraseAge == EraseChar("age")
SpecAge == Init /\ [][TypeAge \/ EraseAge]_vars

TypeConfirm == TypeChar("confirm-password", ConfirmAlphabet, MaxConfirmLen)
EraseConfirm == EraseChar("confirm-password")
TypeConfirmedPassword == TypeChar("password", ConfirmAlphabet, MaxConfirmLen)
EraseConfirmedPassword == EraseChar("password")
SpecConfirm ==
  Init /\ [][TypeConfirm \/ EraseConfirm
             \/ TypeConfirmedPassword \/ EraseConfirmedPassword]_vars

(* ------------------------------------------------------------------ *)
(* Events on the page outside the form                                 *)
(* ------------------------------------------------------------------ *)
\* keys pressed: the shortcuts, the keys of the FAQ questions, another key
Keys == {"t", "T", "+", "=", "-", "r", "R", "Enter", " ", "a"}

\* the history of counter events, by the kind of the event
IncrementEvent == incs < MaxCounterEvents /\ incs' = incs + 1 /\ decs' = decs
DecrementEvent == decs < MaxCounterEvents /\ decs' = decs + 1 /\ incs' = incs
ResetEvent == incs' = 0 /\ decs' = 0

KeyEvent(key) ==
  CASE key \in {"+", "="} -> IncrementEvent
    [] key = "-" -> DecrementEvent
    [] key \in {"r", "R"} -> ResetEvent
    [] OTHER -> UNCHANGED historyVars

\* a click on element t
Click(t) == PageBecomes(DispatchClick(t, Page)) /\ UNCHANGED formVars

ClickThemeBtn == Click(El("theme-toggle", 0)) /\ UNCHANGED historyVars
ClickIncrement == Click(El("increment", 0)) /\ IncrementEvent
ClickDecrement == Click(El("decrement", 0)) /\ DecrementEvent
ClickReset == Click(El("reset", 0)) /\ ResetEvent
ClickFaq(q) == Click(El("faq-question", q)) /\ UNCHANGED historyVars
ClickFaqQuestion == \E q \in FaqQuestions : ClickFaq(q)
ClickTab(b) == Click(El("tab-btn", b)) /\ UNCHANGED historyVars
ClickTabBtn == \E b \in TabBtns : ClickTab(b)
ClickDropBtn == Click(El("drop-btn", 0)) /\ UNCHANGED historyVars
ClickDropItem == Click(El("drop-item", 0)) /\ UNCHANGED historyVars
\* a click on the list of the dropdown, beside its items
ClickDropList == Click(El("drop-list", 0)) /\ UNCHANGED historyVars
\* a click on an element that has no listener and is outside the dropdown
ClickOutside == Click(El("body", 0)) /\ UNCHANGED historyVars

\* key pressed with the focus on t
Keydown(t, key) ==
  /\ PageBecomes(DispatchKeydown(t, key, Page))
  /\ KeyEvent(key)

KeydownBody == \E key \in Keys : Keydown(El("body", 0), key) /\ UNCHANGED formVars
KeydownFaqQuestion ==
  \E q \in FaqQuestions, key \in Keys :
    Keydown(El("faq-question", q), key) /\ UNCHANGED formVars

\* the page is loaded again: the script starts over, localStorage is kept
Reload ==
  /\ PageBecomes(Loaded(themeStored))
  /\ incs' = 0 /\ decs' = 0
  /\ value' = [f \in TextFields |-> <<>>]
  /\ checked' = FALSE
  /\ errText' = [f \in Fields |-> ""]
  /\ invalid' = [f \in Fields |-> FALSE]
  /\ success' = ""
  /\ focus' = "body"
  /\ ret' = [f \in {} |-> TRUE]
  /\ valid' = FALSE
  /\ yearText' = 0

NextPage ==
  \/ ClickThemeBtn
  \/ ClickIncrement
  \/ ClickDecrement
  \/ ClickReset
  \/ ClickFaqQuestion
  \/ ClickTabBtn
  \/ ClickDropBtn
  \/ ClickDropItem
  \/ ClickDropList
  \/ ClickOutside
  \/ KeydownBody
  \/ KeydownFaqQuestion
  \/ Reload

SpecPage == Init /\ [][NextPage]_vars

(* ------------------------------------------------------------------ *)
(* Typing into a form field: the keydown event of the key, which       *)
(* bubbles to the document, then the input event of the character      *)
(* ------------------------------------------------------------------ *)
MaxTypedLen == 2
TypedFields == {"name", "age"}
TypedKeys == {"a", "t", "r", "+", "-"}

TypeKey ==
  \E f \in TypedFields, c \in TypedKeys :
    /\ Len(value[f]) < MaxTypedLen
    /\ Keydown(El("input", f), c)
    /\ InputEvent(f, Append(value[f], c))

EraseKey ==
  \E f \in TypedFields :
    /\ value[f] # <<>>
    /\ Keydown(El("input", f), "Backspace")
    /\ InputEvent(f, SubSeq(value[f], 1, Len(value[f]) - 1))

SpecKeys == Init /\ [][TypeKey \/ EraseKey]_vars

(* ------------------------------------------------------------------ *)
(* Properties                                                          *)
(* ------------------------------------------------------------------ *)
NoDisplay == Display([f \in Fields |-> ""], [f \in Fields |-> FALSE])

\* what f's validator returns on the form holding val and chk
Passes(f, val, chk) ==
  IF f = "terms" THEN validateTerms(chk, NoDisplay).ret
  ELSE Validate(f, val, NoDisplay).ret

AllPass(val, chk) == \A f \in Fields : Passes(f, val, chk)

Msg(f) ==
  CASE f = "name" -> NameMsg
    [] f = "email" -> EmailMsg
    [] f = "password" -> PasswordMsg
    [] f = "confirm-password" -> ConfirmMsg
    [] f = "age" -> AgeMsg
    [] f = "website" -> WebsiteMsg
    [] f = "terms" -> TermsMsg


\* C1: a field that displays error text or carries the invalid marker holds
\* a value that fails its rule (for confirm-password: differs from the
\* password's current value).
C1_ErrorOnlyOnFailingValue ==
  \A f \in Fields :
    (errText[f] # "" \/ invalid[f]) => ~Passes(f, value, checked)

\* C2: a submit runs all seven validators: each one's return value and each
\* field's error text are those of its rule on the submitted form, and the
\* aggregate is true exactly when all seven returned true.
C2_SubmitRunsEveryValidator ==
  [][Submit =>
       /\ DOMAIN ret' = Fields
       /\ \A f \in Fields :
            /\ ret'[f] = Passes(f, value, checked)
            /\ errText'[f] = IF Passes(f, value, checked) THEN "" ELSE Msg(f)
       /\ valid' = (\A f \in Fields : ret'[f] = TRUE)]_vars

\* a failed submit has refreshed the first and the last field's error and
\* recorded a validator between them that returned true
C2_Witness ==
  /\ yearText # 0
  /\ ~valid
  /\ DOMAIN ret = Fields
  /\ ~ret["name"] /\ errText["name"] = NameMsg
  /\ ~ret["terms"] /\ errText["terms"] = TermsMsg
  /\ ret["website"] /\ errText["website"] = ""

\* C3: a validator that returned false has left its field with the error
\* text and the invalid marker; one that returned true has left it with
\* neither.
C3_ReturnMatchesDisplay ==
  \A f \in DOMAIN ret :
    /\ ~ret[f] => (errText[f] = Msg(f) /\ invalid[f])
    /\ ret[f] => (errText[f] = "" /\ ~invalid[f])

\* C4: after a submit on which some validator failed, the focus is on the
\* first field in document order that is marked invalid.
C4_FailedSubmitFocusesFirstInvalid ==
  [][(Submit /\ ~valid') =>
       /\ focus' \in Fields
       /\ invalid'[focus']
       /\ focus' = querySelector(invalid')]_vars

\* C5: a submit on which every validator passes shows the success message,
\* resets every field and leaves no marker and no error text; a submit on
\* which one fails leaves the success message empty and every value as it was.
C5_SubmitOutcome ==
  [][Submit =>
       IF AllPass(value, checked)
       THEN /\ success' = SuccessMsg
            /\ value' = [f \in TextFields |-> <<>>]
            /\ checked' = FALSE
            /\ \A f \in Fields : ~invalid'[f] /\ errText'[f] = ""
       ELSE /\ success' = ""
            /\ value' = value
            /\ checked' = checked]_vars

\* the form just after a submit that passed
C5_Witness ==
  /\ success = SuccessMsg
  /\ valid
  /\ value = [f \in TextFields |-> <<>>]
  /\ ~checked
  /\ DOMAIN ret = Fields
  /\ \A f \in Fields : ret[f] /\ errText[f] = "" /\ ~invalid[f]

\* the form differs from one on which all seven validators return true in
\* field f alone, and f's value fails f's rule
FlippedFrom(f) ==
  /\ ~Passes(f, value, checked)
  /\ IF f = "terms" THEN AllPass(value, TRUE)
     ELSE \E x \in Samples(f) : AllPass([value EXCEPT ![f] = x], checked)

\* C6 (as stated): on a form flipped in one field, the aggregate is false and
\* every other field's validator returns true and shows no error.
C6_Independence ==
  [][Submit =>
       \A f \in Fields :
         FlippedFrom(f) =>
           /\ ~valid'
           /\ \A g \in Fields \ {f} : ret'[g] /\ errText'[g] = ""]_vars

\* the fields whose validators read the value of field f
ReadBy(f) == IF f = "password" THEN {"password", "confirm-password"} ELSE {f}

\* C6 (amended): on a form flipped in one field, the aggregate is false and
\* every other field's validator returns true and shows no error, except
\* that with the password flipped the confirm-password validator returns
\* false and shows its error too.
C6_IndependenceButConfirm ==
  [][Submit =>
       \A f \in Fields :
         FlippedFrom(f) =>
           /\ ~valid'
           /\ \A g \in Fields \ ReadBy(f) : ret'[g] /\ errText'[g] = ""
           /\ \A g \in ReadBy(f) : ~ret'[g] /\ errText'[g] = Msg(g)]_vars

\* a submit has failed on a form whose password alone was made invalid
C6_Witness ==
  /\ yearText # 0
  /\ ~valid
  /\ FlippedFrom("password")
  /\ DOMAIN ret = Fields
  /\ ~ret["password"] /\ ~ret["confirm-password"]
  /\ errText["confirm-password"] = ConfirmMsg
  /\ \A g \in Fields \ ReadBy("password") : ret[g] /\ errText[g] = ""
  /\ focus = "password"

\* character by character
SameString(a, b) == Len(a) = Len(b) /\ \A i \in 1..Len(a) : a[i] = b[i]

\* C7: validateConfirm returns true exactly when the confirm-password value
\* equals the password value, character for character, as both are when it
\* runs.
C7_ConfirmIffEqual ==
  [][(TypeConfirm \/ EraseConfirm) =>
       (ret'["confirm-password"]
          <=> SameString(value'["confirm-password"], value'["password"]))]_vars

\* validateConfirm has just accepted a confirmation with a capital and a
\* trailing blank
C7_Witness ==
  /\ focus = "confirm-password"
  /\ value["confirm-password"] = <<"a", "A", " ">>
  /\ value["password"] = <<"a", "A", " ">>
  /\ ret["confirm-password"]

\* the shape local@domain.tld of a string v
EmailShape(v) ==
  LET ats == {i \in 1..Len(v) : v[i] = "@"}
      at == CHOOSE i \in ats : TRUE
      dots == {k \in 1..Len(v) : v[k] = "." /\ k > at}
      lastDot == CHOOSE k \in dots : \A j \in dots : j <= k
  IN /\ \A i \in 1..Len(v) : v[i] \notin WhiteSpace
     /\ Cardinality(ats) = 1
     /\ at > 1                              \* a local part
     /\ \E k \in dots : k > at + 1          \* a domain, then a dot
     /\ Len(v) - lastDot >= 2               \* a final label of 2 or more

\* C8: validateEmail returns true exactly when the trimmed value has the
\* shape local@domain.tld: no white space, one "@", a non-empty local part, a
\* domain with a dot in it and a final dot-separated label of at least 2
\* characters.
C8_EmailIffShape ==
  focus = "email" => (ret["email"] <=> EmailShape(trim(value["email"])))

\* C9: validateAge returns true exactly when the value coerces to a number
\* that is not zero and lies between 13 and 120 inclusive; every rejection
\* shows the one message; "13" and "120" pass, and "12", "121", "", "0" and
\* text that is no number fail.
C9_AgeIffInRange ==
  focus = "age" =>
    LET v == value["age"]
        n == Number(v)
    IN /\ ret["age"] <=> (~n.nan /\ n.val # 0 /\ n.val >= 13 /\ n.val <= 120)
       /\ errText["age"] = IF ret["age"] THEN "" ELSE AgeMsg
       /\ v \in {<<"1","3">>, <<"1","2","0">>} => ret["age"]
       /\ v \in {<<"1","2">>, <<"1","2","1">>, <<>>, <<"0">>, <<"a">>,
                 <<"1","a">>, <<" ">>} => ~ret["age"]

\* validateAge has just accepted the upper limit
C9_Witness ==
  /\ focus = "age"
  /\ value["age"] = <<"1","2","0">>
  /\ ret["age"]
  /\ errText["age"] = ""

\* C10: validatePassword returns true exactly when the raw value is at least
\* 8 characters long and holds a letter (A-Z, a-z) and a digit.
C10_PasswordIffLongWithLetterAndDigit ==
  focus = "password" =>
    LET v == value["password"]
    IN ret["password"] <=>
         /\ Len(v) >= 8
         /\ \E i \in 1..Len(v) : v[i] \in Lower \cup Upper
         /\ \E i \in 1..Len(v) : v[i] \in Digits

\* validatePassword has just accepted a value that is 8 long only with its
\* leading blank
C10_Witness ==
  /\ focus = "password"
  /\ value["password"] = <<" ","a","a","a","a","a","a","1">>
  /\ ret["password"]
  /\ errText["password"] = ""

\* C11: a validator run a second time on an unchanged form returns what it
\* returned the first time and leaves every field's error text and invalid
\* marker as the first run left them.
C11_ValidatorsIdempotent ==
  LET d0 == Display(errText, invalid)
      t1 == validateTerms(checked, d0)
      t2 == validateTerms(checked, t1.d)
  IN /\ \A f \in TextFields :
          LET o1 == Validate(f, value, d0)
              o2 == Validate(f, value, o1.d)
          IN o2.ret = o1.ret /\ o2.d = o1.d
     /\ t2.ret = t1.ret /\ t2.d = t1.d

\* the email validator has run on the value the field holds and rejected it
C11_Witness ==
  /\ focus = "email"
  /\ "email" \in DOMAIN ret
  /\ ~ret["email"]
  /\ errText["email"] = EmailMsg
  /\ invalid["email"]
  /\ ~Passes("email", value, checked)

\* no field displays error text or carries the invalid marker
NoErrorShown == \A f \in Fields : errText[f] = "" /\ ~invalid[f]

\* C14 (as stated): whenever the success message is displayed, no field
\* displays error text or carries the invalid marker.
C14_SuccessExcludesErrors ==
  success # "" => NoErrorShown

\* C14 (amended): just after a submit the success message is displayed only
\* if no field displays error text or carries the invalid marker; input and
\* change events leave the success message as it is, whatever they display.
C14_SuccessExcludesErrorsAtSubmit ==
  [][/\ Submit => (success' # "" => NoErrorShown')
     /\ (InputName \/ InputEmail \/ InputPassword \/ InputConfirm
           \/ InputAge \/ InputWebsite \/ ChangeTerms) => success' = success]_vars

\* after a submit that passed, an input event has raised an error under the
\* success message
C14_Witness ==
  /\ success = SuccessMsg
  /\ valid
  /\ focus = "email"
  /\ errText["email"] = EmailMsg
  /\ invalid["email"]

\* C12: on every page the persisted theme is "dark" exactly when the page
\* is in dark mode (so a page with no persisted theme is in light mode), a
\* toggle persists "dark" or "light" after the mode it leaves, and a startup
\* restores the mode that was persisted.
C12_ThemePersisted ==
  /\ [](bodyDark <=> themeStored = "dark")
  /\ [][/\ (ClickThemeBtn \/ Keydown(El("body", 0), "t")
              \/ Keydown(El("body", 0), "T")) =>
             /\ bodyDark' = ~bodyDark
             /\ themeStored' = IF bodyDark' THEN "dark" ELSE "light"
        /\ Reload => (bodyDark' = bodyDark /\ themeStored' = themeStored)]_vars

\* the page has been toggled to dark mode
C12_Witness ==
  /\ bodyDark
  /\ themeStored = "dark"
  /\ ariaPressed = "true"
  /\ themeBtnText = LightModeText

\* C13: typing a character into a form field leaves the theme, the
\* persisted theme and the counter unchanged.
C13_TypingLeavesThemeAndCounter ==
  [][(TypeKey \/ EraseKey) => UNCHANGED <<bodyDark, themeStored, count>>]_vars

\* C15: after a click on a tab button whose data-tab names a panel, one
\* button and one panel are active, and the panel is the one the button
\* names.
C15_OneActiveTab ==
  [][\A b \in TabBtns :
       (ClickTab(b) /\ DataTab(b) \in TabContents) =>
         /\ Cardinality(activeTabBtns') = 1
         /\ Cardinality(activeTabContents') = 1
         /\ \A a \in activeTabBtns' : DataTab(a) \in activeTabContents']_vars

\* the third tab has been clicked
C15_Witness ==
  /\ activeTabBtns = {3}
  /\ activeTabContents = {3}

\* C16: a click on the dropdown button inverts the hidden state of the list;
\* a click on an element outside the dropdown, and a click on an item,
\* leave the list hidden.
C16_DropdownClicks ==
  [][/\ ClickDropBtn => dropListHidden' = ~dropListHidden
     /\ (ClickDropItem \/ ClickOutside \/ ClickThemeBtn \/ ClickIncrement
           \/ ClickDecrement \/ ClickReset \/ ClickFaqQuestion \/ ClickTabBtn)
          => dropListHidden']_vars

\* the dropdown button has been clicked and the list shows
C16_Witness ==
  /\ ~dropListHidden
  /\ count = 0

\* C17: the counter is the increment events less the decrement events since
\* the last reset event; every counter event leaves the display showing the
\* counter, and a reset event leaves the counter 0.
C17_CounterIsIncsLessDecs ==
  /\ [](/\ count = incs - decs
        /\ display \in {<<>>, <<count>>})
  /\ [][/\ (ClickIncrement \/ ClickDecrement \/ ClickReset
              \/ \E key \in {"+", "=", "-", "r", "R"} : Keydown(El("body", 0), key))
             => display' = <<count'>>
        /\ (ClickReset \/ Keydown(El("body", 0), "r") \/ Keydown(El("body", 0), "R"))
             => count' = 0]_vars

\* one increment and two decrements since the last reset
C17_Witness ==
  /\ incs = 1
  /\ decs = 2
  /\ count = 0 - 1
  /\ display = <<0 - 1>>

\* C18: every FAQ question has aria-expanded "true" exactly when it has the
\* class open and exactly when its answer has it; a click on a question
\* toggles that entry and leaves every other entry as it was.
C18_FaqEntryToggles ==
  /\ [](\A q \in FaqQuestions :
          /\ (ariaExpanded[q] = "true") <=> questionOpen[q]
          /\ questionOpen[q] <=> answerOpen[q])
  /\ [][\A q \in FaqQuestions :
          ClickFaq(q) =>
            /\ questionOpen'[q] = ~questionOpen[q]
            /\ \A o \in FaqQuestions \ {q} :
                 /\ ariaExpanded'[o] = ariaExpanded[o]
                 /\ questionOpen'[o] = questionOpen[o]
                 /\ answerOpen'[o] = answerOpen[o]]_vars

\* the second question, loaded without aria-expanded, is open and the first
\* is collapsed
C18_Witness ==
  /\ ariaExpanded[2] = "true" /\ questionOpen[2] /\ answerOpen[2]
  /\ ariaExpanded[1] = "false" /\ ~questionOpen[1] /\ ~answerOpen[1]

====
